---- MODULE Spec2Model ----
(***************************************************************************)
(* Model of the persistent AVL tree of                                     *)
(* src/data_structures/binary_search_tree.rs: the tree operations are      *)
(* value-returning functions over immutable nodes, modelled as recursive   *)
(* operators over records; the public operations and the in-order iterator *)
(* are the actions.                                                        *)
(***************************************************************************)
EXTENDS Integers, Sequences, FiniteSets, TLC

\* Values are the integers 1..MaxVal (T: Ord, compared with cmp).
MaxVal == 7
Values == 1..MaxVal

\* The count of exhausted next() calls is tracked up to MaxNones.
MaxNones == 2

Max(a, b) == IF a >= b THEN a ELSE b

\* Option<Arc<Node<T>>>: None, or a node record.
None == [some |-> FALSE]
NoValue == 0

\* Node::new
Node_new(v) == [some |-> TRUE, value |-> v, left |-> None, right |-> None, height |-> 1]

\* self.left.as_ref().map_or(0, |node| node.height)
height_of(t) == IF t.some THEN t.height ELSE 0

\* `h as i8`
as_i8(h) == LET m == h % 256 IN IF m >= 128 THEN m - 256 ELSE m

\* update_height that looks at the left child only
update_height_left_only(n) ==
    [n EXCEPT !.height = 1 + height_of(n.left)]

\* Node::update_height
update_height(n) ==
    [n EXCEPT !.height = 1 + Max(height_of(n.left), height_of(n.right))]

\* balance_factor with the operands swapped
balance_factor_swapped(n) == as_i8(height_of(n.right)) - as_i8(height_of(n.left))

\* Node::balance_factor
balance_factor(n) == as_i8(height_of(n.left)) - as_i8(height_of(n.right))

\* rotate_right that hands the old root the promoted node's left child
rotate_right_wrong_child(n) ==
    IF ~n.left.some THEN n
    ELSE LET new_root == n.left
             self1 == update_height([n EXCEPT !.left = new_root.left])
         IN  update_height([new_root EXCEPT !.right = self1])

\* Node::rotate_right
rotate_right(n) ==
    IF ~n.left.some THEN n
    ELSE LET new_root == n.left
             self1 == update_height([n EXCEPT !.left = new_root.right])
         IN  update_height([new_root EXCEPT !.right = self1])

\* Node::rotate_left
rotate_left(n) ==
    IF ~n.right.some THEN n
    ELSE LET new_root == n.right
             self1 == update_height([n EXCEPT !.right = new_root.left])
         IN  update_height([new_root EXCEPT !.left = self1])

\* balance without the preliminary rotation of the LR and RL cases
balance_single_rotation(n) ==
    LET bal == balance_factor(n) IN
    IF bal > 1 THEN rotate_right(n)
    ELSE IF bal < -1 THEN rotate_left(n)
    ELSE n

\* Node::balance: self.left.as_ref().unwrap() / self.right.as_ref().unwrap()
\* panics when the child the balance factor points at is missing
unwrap_fails(n) ==
    LET bal == balance_factor(n) IN
    \/ bal > 1 /\ ~n.left.some
    \/ bal < -1 /\ ~n.right.some

\* Node::balance: the preliminary rotation of the LR or RL case is called on a
\* child that lacks the grandchild to promote
rotates_missing(n) ==
    LET bal == balance_factor(n) IN
    \/ bal > 1 /\ n.left.some /\ balance_factor(n.left) < 0 /\ ~n.left.right.some
    \/ bal < -1 /\ n.right.some /\ balance_factor(n.right) > 0 /\ ~n.right.left.some

\* Node::balance (a call that panics does not return; n stands for it)
balance(n) ==
    LET bal == balance_factor(n) IN
    IF unwrap_fails(n) THEN n
    ELSE IF bal > 1 THEN
        IF balance_factor(n.left) < 0
        THEN rotate_right([n EXCEPT !.left = rotate_left(n.left)])
        ELSE rotate_right(n)
    ELSE IF bal < -1 THEN
        IF balance_factor(n.right) > 0
        THEN rotate_left([n EXCEPT !.right = rotate_right(n.right)])
        ELSE rotate_left(n)
    ELSE n

RECURSIVE Node_search(_, _)
\* Node::search
Node_search(n, v) ==
    IF n.value = v THEN TRUE
    ELSE IF n.value > v THEN (IF n.left.some THEN Node_search(n.left, v) ELSE FALSE)
    ELSE (IF n.right.some THEN Node_search(n.right, v) ELSE FALSE)

RECURSIVE Node_insert(_, _)
\* Node::insert
Node_insert(n, v) ==
    IF n.value < v THEN
        balance(update_height([n EXCEPT !.right =
            IF n.right.some THEN Node_insert(n.right, v) ELSE Node_new(v)]))
    ELSE IF n.value > v THEN
        balance(update_height([n EXCEPT !.left =
            IF n.left.some THEN Node_insert(n.left, v) ELSE Node_new(v)]))
    ELSE n

RECURSIVE Node_minimum(_)
\* minimum that descends one level only
Node_minimum_one_level(n) == IF n.left.some THEN n.left.value ELSE n.value

\* Node::minimum
Node_minimum(n) == IF n.left.some THEN Node_minimum(n.left) ELSE n.value

RECURSIVE Node_maximum(_)
\* Node::maximum
Node_maximum(n) == IF n.right.some THEN Node_maximum(n.right) ELSE n.value

RECURSIVE Node_floor(_, _)
\* floor that falls back to the node itself before looking right
Node_floor_self_first(n, v) ==
    IF n.value = v THEN n.value
    ELSE IF n.value > v THEN (IF n.left.some THEN Node_floor(n.left, v) ELSE NoValue)
    ELSE n.value

\* Node::floor
Node_floor(n, v) ==
    IF n.value = v THEN n.value
    ELSE IF n.value > v THEN (IF n.left.some THEN Node_floor(n.left, v) ELSE NoValue)
    ELSE LET r == IF n.right.some THEN Node_floor(n.right, v) ELSE NoValue
         IN  IF r # NoValue THEN r ELSE n.value

RECURSIVE Node_ceil(_, _)
\* Node::ceil
Node_ceil(n, v) ==
    IF n.value = v THEN n.value
    ELSE IF n.value < v THEN (IF n.right.some THEN Node_ceil(n.right, v) ELSE NoValue)
    ELSE LET r == IF n.left.some THEN Node_ceil(n.left, v) ELSE NoValue
         IN  IF r # NoValue THEN r ELSE n.value

RECURSIVE Node_remove(_, _)
\* Node::remove
Node_remove(n, v) ==
    IF v < n.value THEN
        IF n.left.some
        THEN balance([n EXCEPT !.left = Node_remove(n.left, v)])
        ELSE n
    ELSE IF v > n.value THEN
        IF n.right.some
        THEN balance([n EXCEPT !.right = Node_remove(n.right, v)])
        ELSE n
    ELSE
        CASE ~n.left.some /\ ~n.right.some -> None
          [] n.left.some /\ ~n.right.some -> n.left
          [] ~n.left.some /\ n.right.some -> n.right
          [] OTHER ->
                LET min_value == Node_minimum(n.right)
                IN  balance([n EXCEPT !.value = min_value,
                                      !.left = None,
                                      !.right = Node_remove(n.right, min_value)])

RECURSIVE Node_insert_calls(_, _)
\* Node::insert: the nodes balance() is called on, innermost call first
Node_insert_calls(n, v) ==
    IF n.value < v THEN
        (IF n.right.some THEN Node_insert_calls(n.right, v) ELSE {}) \cup
        {update_height([n EXCEPT !.right =
            IF n.right.some THEN Node_insert(n.right, v) ELSE Node_new(v)])}
    ELSE IF n.value > v THEN
        (IF n.left.some THEN Node_insert_calls(n.left, v) ELSE {}) \cup
        {update_height([n EXCEPT !.left =
            IF n.left.some THEN Node_insert(n.left, v) ELSE Node_new(v)])}
    ELSE {}

RECURSIVE Node_remove_calls(_, _)
\* Node::remove: the nodes balance() is called on
Node_remove_calls(n, v) ==
    IF v < n.value THEN
        IF n.left.some
        THEN Node_remove_calls(n.left, v) \cup
             {[n EXCEPT !.left = Node_remove(n.left, v)]}
        ELSE {}
    ELSE IF v > n.value THEN
        IF n.right.some
        THEN Node_remove_calls(n.right, v) \cup
             {[n EXCEPT !.right = Node_remove(n.right, v)]}
        ELSE {}
    ELSE
        IF n.left.some /\ n.right.some
        THEN LET min_value == Node_minimum(n.right)
             IN  Node_remove_calls(n.right, min_value) \cup
                 {[n EXCEPT !.value = min_value,
                            !.left = None,
                            !.right = Node_remove(n.right, min_value)]}
        ELSE {}

\* One call of Node::balance: the balance factor on entry, the balance factor
\* of the node returned, and whether the call panicked or rotated into a
\* missing child.
BalanceCall(n) ==
    [inbf    |-> balance_factor(n),
     outbf   |-> balance_factor(balance(n)),
     fatal   |-> unwrap_fails(n),
     missing |-> rotates_missing(n)]

\* What a set of balance() calls looked like: the balance factors seen on
\* entry, those of the nodes returned, and whether any call panicked or
\* rotated into a missing child.
CallLog(calls) ==
    [inbf    |-> {c.inbf : c \in calls},
     outbf   |-> {c.outbf : c \in calls},
     fatal   |-> \E c \in calls : c.fatal,
     missing |-> \E c \in calls : c.missing]

\* The balance() calls of tree.insert(v) and of tree.remove(&v)
insert_calls(t, v) ==
    CallLog(IF t.some THEN {BalanceCall(n) : n \in Node_insert_calls(t, v)} ELSE {})
remove_calls(t, v) ==
    CallLog(IF t.some THEN {BalanceCall(n) : n \in Node_remove_calls(t, v)} ELSE {})

\* BinarySearchTree::search
search(t, v) == IF t.some THEN Node_search(t, v) ELSE FALSE
\* BinarySearchTree::minimum
minimum(t) == IF t.some THEN Node_minimum(t) ELSE NoValue
\* BinarySearchTree::maximum
maximum(t) == IF t.some THEN Node_maximum(t) ELSE NoValue
\* BinarySearchTree::floor
floor(t, v) == IF t.some THEN Node_floor(t, v) ELSE NoValue
\* BinarySearchTree::ceil
ceil(t, v) == IF t.some THEN Node_ceil(t, v) ELSE NoValue
\* BinarySearchTree::height
height(t) == IF t.some THEN t.height ELSE 0
\* BinarySearchTree::insert
insert(t, v) == IF t.some THEN Node_insert(t, v) ELSE Node_new(v)
\* BinarySearchTree::remove
remove(t, v) == IF t.some THEN Node_remove(t, v) ELSE t

RECURSIVE stack_push_left(_, _)
\* stack_push_left that pushes the node without descending to the left
stack_push_left_no_descent(stk, n) == Append(stk, n)

\* BinarySearchTreeIter::stack_push_left
stack_push_left(stk, n) ==
    IF n.left.some THEN stack_push_left(Append(stk, n), n.left)
    ELSE Append(stk, n)

\* BinarySearchTreeIter::new
Iter_new(t) == IF t.some THEN stack_push_left(<<>>, t) ELSE <<>>

\* next that reads the top of the stack without popping it
Iter_next_no_pop(stk) ==
    IF stk # <<>>
    THEN LET node == stk[Len(stk)]
         IN  [stack |-> IF node.right.some
                        THEN stack_push_left(stk, node.right)
                        ELSE stk,
              item  |-> node.value]
    ELSE [stack |-> stk, item |-> NoValue]

\* BinarySearchTreeIter::next: the stack after the call and the item returned
Iter_next(stk) ==
    IF stk # <<>>
    THEN LET node == stk[Len(stk)]
             popped == SubSeq(stk, 1, Len(stk) - 1)
         IN  [stack |-> IF node.right.some
                        THEN stack_push_left(popped, node.right)
                        ELSE popped,
              item  |-> node.value]
    ELSE [stack |-> stk, item |-> NoValue]

----
\* src/ciphers/hashing_traits.rs and src/ciphers/kerninghan.rs

\* KEY_BYTES and DIGEST_BYTES (const generics of HMAC) and the input sets
KeyBytes == 2
DigestBytes == 2
KeySample == {222, 54}
Chunks == {<<72>>, <<101, 0>>}
MaxCalls == 4

\* The width of the unsigned integers of kerninghan in the model
WordBits == 6

RECURSIVE BitXor(_, _, _)
\* a ^ b on integers of the given number of bits
BitXor(a, b, bits) ==
    IF bits = 0 THEN 0
    ELSE (((a % 2) + (b % 2)) % 2) + 2 * BitXor(a \div 2, b \div 2, bits - 1)

RECURSIVE BitAnd(_, _, _)
\* a & b on integers of the given number of bits
BitAnd(a, b, bits) ==
    IF bits = 0 THEN 0
    ELSE ((a % 2) * (b % 2)) + 2 * BitAnd(a \div 2, b \div 2, bits - 1)

\* u8 ^ u8
XorByte(a, b) == BitXor(a, b, 8)

\* The pad bytes of add_key: *b ^= 0x36, then *b ^= 0x6a
IPAD == 54
OPAD == 106

RECURSIVE WeightedSum(_, _, _)
WeightedSum(st, i, j) ==
    IF j > Len(st) THEN 0 ELSE (i + j) * st[j] + WeightedSum(st, i, j + 1)

\* Hasher::new_default: a hasher is the sequence of the bytes it has absorbed
Hasher_new_default == <<>>
\* Hasher::update
Hasher_update(st, data) == st \o data
\* Hasher::get_hash: DIGEST_BYTES bytes that depend on every absorbed byte and
\* on its position
Hasher_get_hash(st) ==
    [i \in 1..DigestBytes |-> (Len(st) + WeightedSum(st, i, 1)) % 256]

\* <[u8]>::copy_from_slice: panics unless both slices have the same length
copy_from_slice(dst, src) ==
    IF Len(src) = Len(dst) THEN [panic |-> FALSE, value |-> src]
    ELSE [panic |-> TRUE, value |-> dst]

\* add_key that feeds the outer hasher the inner key
HMAC_add_key_same_pad(inner, outer, key) ==
    IF Len(key) <= KeyBytes THEN
        LET cp == copy_from_slice([i \in 1..KeyBytes |-> 0], key)
            ikey == [i \in 1..KeyBytes |-> XorByte(cp.value[i], IPAD)]
        IN  IF cp.panic
            THEN [result |-> "panic", inner |-> inner, outer |-> outer]
            ELSE [result |-> "Ok",
                  inner |-> Hasher_update(inner, ikey),
                  outer |-> Hasher_update(outer, ikey)]
    ELSE [result |-> "Err", inner |-> inner, outer |-> outer]

\* HMAC::add_key: the result and the two hasher states afterwards
HMAC_add_key(inner, outer, key) ==
    IF Len(key) <= KeyBytes THEN
        LET cp == copy_from_slice([i \in 1..KeyBytes |-> 0], key)
            ikey == [i \in 1..KeyBytes |-> XorByte(cp.value[i], IPAD)]
            okey == [i \in 1..KeyBytes |-> XorByte(ikey[i], OPAD)]
        IN  IF cp.panic
            THEN [result |-> "panic", inner |-> inner, outer |-> outer]
            ELSE [result |-> "Ok",
                  inner |-> Hasher_update(inner, ikey),
                  outer |-> Hasher_update(outer, okey)]
    ELSE [result |-> "Err", inner |-> inner, outer |-> outer]

\* HMAC::update
HMAC_update(inner, data) == Hasher_update(inner, data)

\* HMAC::finalize: the outer hasher afterwards and the digest returned
HMAC_finalize(inner, outer) ==
    LET o == Hasher_update(outer, Hasher_get_hash(inner))
    IN  [outer |-> o, digest |-> Hasher_get_hash(o)]

\* the loop body with a shift in place of n & (n - 1)
kerninghan_step_shift(n) == n \div 2

\* kerninghan: n &= n - 1
kerninghan_step(n) == BitAnd(n, n - 1, WordBits)

VARIABLES
    hInner,     \* HMAC.inner_internal_state: the bytes absorbed
    hOuter,     \* HMAC.outer_internal_state: the bytes absorbed
    hCalls,     \* the calls made on the HMAC, with argument and result
    hDigest,    \* what the last finalize() returned
    kInput,     \* kerninghan: the argument
    kN,         \* kerninghan: n
    kCount,     \* kerninghan: count
    kPc         \* kerninghan: "idle", "loop" or "done"

hmacVars == <<hInner, hOuter, hCalls, hDigest>>
kernVars == <<kInput, kN, kCount, kPc>>

VARIABLES
    root,       \* BinarySearchTree.root
    model,      \* the mathematical set the same calls build
    iterLive,   \* an iterator borrowed from the tree exists
    stack,      \* BinarySearchTreeIter.stack
    yielded,    \* the values the live iterator has returned so far
    nones,      \* how often the live iterator has returned no value (saturating)
    lastOp,     \* the last call made: its kind, its argument or result, and
                \* for insert/remove whether the value was stored before
    balLog      \* the balance() calls the last call made

treeVars == <<root, model, iterLive, stack, yielded, nones, lastOp, balLog>>
vars == <<treeVars, hmacVars, kernVars>>

Op(k, v, f) == [kind |-> k, value |-> v, found |-> f]

\* HMAC::new_default
HmacInit ==
    /\ hInner = Hasher_new_default
    /\ hOuter = Hasher_new_default
    /\ hCalls = <<>>
    /\ hDigest = <<>>

\* kerninghan has not been called
KernIdle ==
    /\ kInput = 0
    /\ kN = 0
    /\ kCount = 0
    /\ kPc = "idle"

\* BinarySearchTree::new
Init ==
    /\ HmacInit
    /\ KernIdle
    /\ root = None
    /\ model = {}
    /\ iterLive = FALSE
    /\ stack = <<>>
    /\ yielded = <<>>
    /\ nones = 0
    /\ lastOp = Op("new", NoValue, FALSE)
    /\ balLog = CallLog({})

\* tree.insert(v): takes &mut self, so no iterator is borrowed from the tree
Insert(v) ==
    /\ ~iterLive
    /\ balLog' = insert_calls(root, v)
    /\ root' = IF balLog'.fatal
               THEN None    \* self.root.take() came before the panic
               ELSE insert(root, v)
    /\ model' = model \cup {v}
    /\ lastOp' = Op("insert", v, search(root, v))
    /\ UNCHANGED <<iterLive, stack, yielded, nones, hmacVars, kernVars>>

\* tree.remove(&v): takes &mut self
Remove(v) ==
    /\ ~iterLive
    /\ balLog' = remove_calls(root, v)
    /\ root' = IF balLog'.fatal
               THEN None    \* self.root.take() came before the panic
               ELSE remove(root, v)
    /\ model' = model \ {v}
    /\ lastOp' = Op("remove", v, search(root, v))
    /\ UNCHANGED <<iterLive, stack, yielded, nones, hmacVars, kernVars>>

\* let it = tree.iter()
IterNew ==
    /\ ~iterLive
    /\ iterLive' = TRUE
    /\ stack' = Iter_new(root)
    /\ yielded' = <<>>
    /\ nones' = 0
    /\ lastOp' = Op("iter", NoValue, FALSE)
    /\ balLog' = CallLog({})
    /\ UNCHANGED <<root, model, hmacVars, kernVars>>

\* it.next()
IterNext ==
    /\ iterLive
    /\ LET r == Iter_next(stack)
       IN  /\ stack' = r.stack
           /\ yielded' = IF r.item # NoValue THEN Append(yielded, r.item) ELSE yielded
           /\ nones' = IF r.item = NoValue /\ nones < MaxNones THEN nones + 1 ELSE nones
           /\ lastOp' = Op("next", r.item, FALSE)
    /\ balLog' = CallLog({})
    /\ UNCHANGED <<root, model, iterLive, hmacVars, kernVars>>

\* drop(it): the borrow of the tree ends
IterDrop ==
    /\ iterLive
    /\ iterLive' = FALSE
    /\ stack' = <<>>
    /\ yielded' = <<>>
    /\ nones' = 0
    /\ lastOp' = Op("drop", NoValue, FALSE)
    /\ balLog' = CallLog({})
    /\ UNCHANGED <<root, model, hmacVars, kernVars>>

Next ==
    \/ \E v \in Values : Insert(v)
    \/ \E v \in Values : Remove(v)
    \/ IterNew
    \/ IterNext
    \/ IterDrop

Spec == Init /\ [][Next]_vars

\* Only insert is called (test_height, test_balancing).
NextInsert == \E v \in Values : Insert(v)

SpecInsert == Init /\ [][NextInsert]_vars

----
\* The calls on one HMAC value.  A panic ends the run.

Keys == UNION {[1..n -> KeySample] : n \in 0..(KeyBytes + 1)}

Call(k, a, r) == [kind |-> k, arg |-> a, result |-> r]

Callable ==
    /\ Len(hCalls) < MaxCalls
    /\ \A i \in 1..Len(hCalls) : hCalls[i].result # "panic"

\* hmac.add_key(key)
HmacAddKey(key) ==
    /\ Callable
    /\ LET r == HMAC_add_key(hInner, hOuter, key)
       IN  /\ hInner' = r.inner
           /\ hOuter' = r.outer
           /\ hCalls' = Append(hCalls, Call("add_key", key, r.result))
    /\ UNCHANGED <<hDigest, treeVars, kernVars>>

\* hmac.update(data)
HmacUpdate(data) ==
    /\ Callable
    /\ hInner' = HMAC_update(hInner, data)
    /\ hCalls' = Append(hCalls, Call("update", data, "unit"))
    /\ UNCHANGED <<hOuter, hDigest, treeVars, kernVars>>

\* hmac.finalize()
HmacFinalize ==
    /\ Callable
    /\ LET r == HMAC_finalize(hInner, hOuter)
       IN  /\ hOuter' = r.outer
           /\ hDigest' = r.digest
           /\ hCalls' = Append(hCalls, Call("finalize", <<>>, "digest"))
    /\ UNCHANGED <<hInner, treeVars, kernVars>>

NextHmac ==
    \/ \E key \in Keys : HmacAddKey(key)
    \/ \E data \in Chunks : HmacUpdate(data)
    \/ HmacFinalize

SpecHmac == Init /\ [][NextHmac]_vars

----
\* One call of kerninghan(n), for every n of WordBits bits.

RECURSIVE Pow2(_)
Pow2(k) == IF k = 0 THEN 1 ELSE 2 * Pow2(k - 1)

\* kerninghan(n) is entered: let mut count = 0
KernInit ==
    /\ kInput \in 0..(Pow2(WordBits) - 1)
    /\ kN = kInput
    /\ kCount = 0
    /\ kPc = "loop"
    /\ HmacInit
    /\ root = None
    /\ model = {}
    /\ iterLive = FALSE
    /\ stack = <<>>
    /\ yielded = <<>>
    /\ nones = 0
    /\ lastOp = Op("new", NoValue, FALSE)
    /\ balLog = CallLog({})

\* while n > 0 { n &= n - 1; count += 1; }
KernLoop ==
    /\ kPc = "loop"
    /\ kN > 0
    /\ kN' = kerninghan_step(kN)
    /\ kCount' = kCount + 1
    /\ UNCHANGED <<kInput, kPc, treeVars, hmacVars>>

\* the loop ends and count is returned
KernReturn ==
    /\ kPc = "loop"
    /\ ~(kN > 0)
    /\ kPc' = "done"
    /\ UNCHANGED <<kInput, kN, kCount, treeVars, hmacVars>>

NextKern == KernLoop \/ KernReturn

\* The function runs to its end once called.
SpecKern == KernInit /\ [][NextKern]_vars /\ WF_vars(NextKern)

----
\* Measurements of a tree, independent of the cached height fields.

RECURSIVE RealHeight(_)
RealHeight(t) == IF t.some THEN 1 + Max(RealHeight(t.left), RealHeight(t.right)) ELSE 0

RECURSIVE InOrder(_)
InOrder(t) == IF t.some THEN InOrder(t.left) \o <<t.value>> \o InOrder(t.right) ELSE <<>>

RECURSIVE Nodes(_)
Nodes(t) == IF t.some THEN {t} \cup Nodes(t.left) \cup Nodes(t.right) ELSE {}

RECURSIVE Size(_)
Size(t) == IF t.some THEN 1 + Size(t.left) + Size(t.right) ELSE 0

Contents(t) == {n.value : n \in Nodes(t)}
Range(s) == {s[i] : i \in 1..Len(s)}
Ascending(s) == \A i \in 1..(Len(s) - 1) : s[i] < s[i + 1]
Abs(x) == IF x < 0 THEN -x ELSE x

----
\* The same operations over reference-counted nodes.  A heap is the sequence
\* of the nodes allocated so far; an Arc<Node<T>> is an index into it and 0 is
\* None.  A node held by value (`self`, `(*node).clone()`) is a record that is
\* in no heap cell until Arc::new puts it into a fresh one.

\* Arc::new(node): the heap with the node in a fresh cell; the new Arc is the
\* length of the result
Arc_new(h, node) == Append(h, node)

Made(h, node) == [heap |-> h, node |-> node]
Made_arc(h, id) == [heap |-> h, root |-> id]

\* Node::new
arc_Node_new(v) == [value |-> v, left |-> 0, right |-> 0, height |-> 1]

\* self.left.as_ref().map_or(0, |node| node.height)
arc_height_of(h, id) == IF id = 0 THEN 0 ELSE h[id].height

\* Node::update_height
arc_update_height(h, n) ==
    [n EXCEPT !.height = 1 + Max(arc_height_of(h, n.left), arc_height_of(h, n.right))]

\* Node::balance_factor
arc_balance_factor(h, n) ==
    as_i8(arc_height_of(h, n.left)) - as_i8(arc_height_of(h, n.right))

\* Node::rotate_right
arc_rotate_right(h, n) ==
    IF n.left = 0 THEN Made(h, n)
    ELSE LET new_root == h[n.left]
             self1 == arc_update_height(h, [n EXCEPT !.left = new_root.right])
             h1 == Arc_new(h, self1)
         IN  Made(h1, arc_update_height(h1, [new_root EXCEPT !.right = Len(h1)]))

\* Node::rotate_left
arc_rotate_left(h, n) ==
    IF n.right = 0 THEN Made(h, n)
    ELSE LET new_root == h[n.right]
             self1 == arc_update_height(h, [n EXCEPT !.right = new_root.left])
             h1 == Arc_new(h, self1)
         IN  Made(h1, arc_update_height(h1, [new_root EXCEPT !.left = Len(h1)]))

\* Node::balance
arc_balance(h, n) ==
    LET bal == arc_balance_factor(h, n) IN
    IF (bal > 1 /\ n.left = 0) \/ (bal < -1 /\ n.right = 0) THEN Made(h, n)
    ELSE IF bal > 1 THEN
        IF arc_balance_factor(h, h[n.left]) < 0
        THEN LET r == arc_rotate_left(h, h[n.left])
                 h1 == Arc_new(r.heap, r.node)
             IN  arc_rotate_right(h1, [n EXCEPT !.left = Len(h1)])
        ELSE arc_rotate_right(h, n)
    ELSE IF bal < -1 THEN
        IF arc_balance_factor(h, h[n.right]) > 0
        THEN LET r == arc_rotate_right(h, h[n.right])
                 h1 == Arc_new(r.heap, r.node)
             IN  arc_rotate_left(h1, [n EXCEPT !.right = Len(h1)])
        ELSE arc_rotate_left(h, n)
    ELSE Made(h, n)

RECURSIVE arc_Node_insert(_, _, _)
\* Node::insert, on a node held by value
arc_Node_insert(h, n, v) ==
    IF n.value < v THEN
        LET sub == IF n.right # 0 THEN arc_Node_insert(h, h[n.right], v)
                   ELSE Made(h, arc_Node_new(v))
            h1 == Arc_new(sub.heap, sub.node)
        IN  arc_balance(h1, arc_update_height(h1, [n EXCEPT !.right = Len(h1)]))
    ELSE IF n.value > v THEN
        LET sub == IF n.left # 0 THEN arc_Node_insert(h, h[n.left], v)
                   ELSE Made(h, arc_Node_new(v))
            h1 == Arc_new(sub.heap, sub.node)
        IN  arc_balance(h1, arc_update_height(h1, [n EXCEPT !.left = Len(h1)]))
    ELSE Made(h, n)

RECURSIVE arc_Node_minimum(_, _)
\* Node::minimum
arc_Node_minimum(h, n) == IF n.left # 0 THEN arc_Node_minimum(h, h[n.left]) ELSE n.value

RECURSIVE arc_Node_remove(_, _, _)
\* Node::remove, on an Arc
arc_Node_remove(h, id, v) ==
    LET node == h[id] IN
    IF v < node.value THEN
        IF node.left # 0
        THEN LET sub == arc_Node_remove(h, node.left, v)
                 b == arc_balance(sub.heap, [node EXCEPT !.left = sub.root])
             IN  Made_arc(Arc_new(b.heap, b.node), Len(b.heap) + 1)
        ELSE Made_arc(Arc_new(h, node), Len(h) + 1)
    ELSE IF v > node.value THEN
        IF node.right # 0
        THEN LET sub == arc_Node_remove(h, node.right, v)
                 b == arc_balance(sub.heap, [node EXCEPT !.right = sub.root])
             IN  Made_arc(Arc_new(b.heap, b.node), Len(b.heap) + 1)
        ELSE Made_arc(Arc_new(h, node), Len(h) + 1)
    ELSE
        CASE node.left = 0 /\ node.right = 0 -> Made_arc(h, 0)
          [] node.left # 0 /\ node.right = 0 -> Made_arc(h, node.left)
          [] node.left = 0 /\ node.right # 0 -> Made_arc(h, node.right)
          [] OTHER ->
                LET min_value == arc_Node_minimum(h, h[node.right])
                    sub == arc_Node_remove(h, node.right, min_value)
                    b == arc_balance(sub.heap, [node EXCEPT !.value = min_value,
                                                            !.left = 0,
                                                            !.right = sub.root])
                IN  Made_arc(Arc_new(b.heap, b.node), Len(b.heap) + 1)

\* insert that writes the new root node into the old root's cell
arc_insert_in_place(h, id, v) ==
    IF id # 0
    THEN LET r == arc_Node_insert(h, h[id], v)
         IN  Made_arc([r.heap EXCEPT ![id] = r.node], id)
    ELSE Made_arc(Arc_new(h, arc_Node_new(v)), Len(h) + 1)

\* BinarySearchTree::insert
arc_insert(h, id, v) ==
    IF id # 0
    THEN LET r == arc_Node_insert(h, h[id], v)
         IN  Made_arc(Arc_new(r.heap, r.node), Len(r.heap) + 1)
    ELSE Made_arc(Arc_new(h, arc_Node_new(v)), Len(h) + 1)

\* BinarySearchTree::remove
arc_remove(h, id, v) == IF id # 0 THEN arc_Node_remove(h, id, v) ELSE Made_arc(h, 0)

RECURSIVE ToHeap(_, _)
\* The tree t laid out in fresh cells after those of h, and the Arc of its root
ToHeap(h, t) ==
    IF ~t.some THEN Made_arc(h, 0)
    ELSE LET l == ToHeap(h, t.left)
             r == ToHeap(l.heap, t.right)
         IN  Made_arc(Arc_new(r.heap, [value |-> t.value, left |-> l.root,
                                       right |-> r.root, height |-> t.height]),
                      Len(r.heap) + 1)

RECURSIVE FromHeap(_, _)
\* The tree the Arc id points at
FromHeap(h, id) ==
    IF id = 0 THEN None
    ELSE [some |-> TRUE, value |-> h[id].value, left |-> FromHeap(h, h[id].left),
          right |-> FromHeap(h, h[id].right), height |-> h[id].height]

RECURSIVE Reach(_, _)
\* The cells reachable from the Arc id
Reach(h, id) == IF id = 0 THEN {} ELSE {id} \cup Reach(h, h[id].left) \cup Reach(h, h[id].right)

\* The heap and root Arc after the call op on the tree t held as a snapshot
AfterCall(t, op) ==
    LET before == ToHeap(<<>>, t)
    IN  IF op.kind = "insert" THEN arc_insert(before.heap, before.root, op.value)
        ELSE arc_remove(before.heap, before.root, op.value)

----
\* C1: after any sequence of insert and remove calls, at every node the real
\* heights of the left and the right subtree differ by at most 1.
C1_AVLBalanced ==
    \A n \in Nodes(root) : Abs(RealHeight(n.left) - RealHeight(n.right)) <= 1

\* C2: after every insert or remove, every node's cached height is
\* 1 + max of its children's cached heights (absent child = 0), and height()
\* is the real height of the tree.
C2_HeightsExact ==
    /\ \A n \in Nodes(root) :
          n.height = 1 + Max(height_of(n.left), height_of(n.right))
    /\ height(root) = RealHeight(root)

\* C3: at every node all values of the left subtree are smaller and all values
\* of the right subtree greater than the node's value; no value is stored
\* twice and the in-order traversal is strictly ascending.
C3_SearchTree ==
    /\ \A n \in Nodes(root) :
          /\ \A m \in Nodes(n.left) : m.value < n.value
          /\ \A m \in Nodes(n.right) : m.value > n.value
    /\ Ascending(InOrder(root))
    /\ Size(root) = Cardinality(Contents(root))

\* C3 witness: a stored value was just removed and left a tree of real height
\* 3 or more whose root has both children.
C3_Witness ==
    /\ lastOp.kind = "remove" /\ lastOp.found
    /\ root.some /\ root.left.some /\ root.right.some
    /\ RealHeight(root) >= 3

\* C4: search(v) is true exactly when v is in the set built by the same calls.
C4_Membership == \A v \in Values : search(root, v) <=> (v \in model)

\* The height bound of C5 for n stored values.
HeightBound(n) == IF n = 0 THEN 1 ELSE IF n <= 2 THEN 2 ELSE IF n <= 4 THEN 3 ELSE 4

\* C5: with n stored values (n <= 9), height() is at most 1.44 * log2(n + 2).
C5_HeightBound == height(root) <= HeightBound(Size(root))

\* What the read operations of the tree t return.
Observed(t) ==
    [search  |-> [v \in Values |-> search(t, v)],
     iter    |-> InOrder(t),
     minimum |-> minimum(t),
     maximum |-> maximum(t),
     floor   |-> [v \in Values |-> floor(t, v)],
     ceil    |-> [v \in Values |-> ceil(t, v)],
     height  |-> height(t)]

\* C6: insert of a value that is already stored changes the result of no read
\* operation (search, iter, minimum, maximum, floor, ceil, height).
C6_DuplicateInsertNoOp ==
    [][(lastOp'.kind = "insert" /\ lastOp'.found /\ root' = insert(root, lastOp'.value))
          => Observed(root') = Observed(root)]_vars

\* C7: remove of a value that is not stored leaves the in-order contents, the
\* shape of the tree and height() unchanged.
C7_AbsentRemoveNoOp ==
    [][(lastOp'.kind = "remove" /\ ~lastOp'.found /\ root' = remove(root, lastOp'.value))
          => root' = root]_vars

\* The greatest stored value <= v and the least stored value >= v.
FloorOf(S, v) ==
    LET lo == {x \in S : x <= v}
    IN  IF lo = {} THEN NoValue ELSE CHOOSE x \in lo : \A y \in lo : y <= x
CeilOf(S, v) ==
    LET hi == {x \in S : x >= v}
    IN  IF hi = {} THEN NoValue ELSE CHOOSE x \in hi : \A y \in hi : x <= y

\* C8: floor(v) is the greatest stored value <= v, ceil(v) the least stored
\* value >= v, each none when there is no such value, and both are v when v is
\* stored.
C8_FloorCeil ==
    \A v \in Values :
        /\ floor(root, v) = FloorOf(Contents(root), v)
        /\ ceil(root, v) = CeilOf(Contents(root), v)
        /\ v \in Contents(root) => floor(root, v) = v /\ ceil(root, v) = v

\* C8 witness: after a removal the tree holds values for which some query has
\* no floor, some query has no ceil, and some query lies strictly between its
\* floor and its ceil.
C8_Witness ==
    /\ lastOp.kind = "remove" /\ lastOp.found
    /\ \E v \in Values : root.some /\ floor(root, v) = NoValue
    /\ \E v \in Values : root.some /\ ceil(root, v) = NoValue
    /\ \E v \in Values : /\ floor(root, v) # NoValue /\ floor(root, v) < v
                         /\ ceil(root, v) # NoValue /\ v < ceil(root, v)

\* C9: the values an iterator yields are strictly ascending stored values, and
\* an iterator driven to exhaustion has yielded every stored value exactly
\* once: as many values as the tree stores.
C9_IteratorInOrder ==
    iterLive =>
        /\ Ascending(yielded)
        /\ Range(yielded) \subseteq Contents(root)
        /\ (nones > 0 \/ stack = <<>>) =>
              /\ Range(yielded) = Contents(root)
              /\ Len(yielded) = Size(root)

\* C9 witness: an iterator over a tree of four or more values, reached after a
\* removal, has been driven to exhaustion.
C9_Witness ==
    /\ iterLive /\ nones > 0
    /\ Len(yielded) >= 4
    /\ model # Contents(root)

\* C10: an iterator returns no value after at most as many next() calls as the
\* tree stores values, and once next() has returned no value every later
\* next() returns no value and the stack stays empty.
C10_IdempotentExhaustion ==
    /\ [](iterLive => /\ Len(yielded) <= Size(root)
                      /\ (Len(yielded) = Size(root) => stack = <<>>)
                      /\ (nones > 0 => stack = <<>>))
    /\ [][(iterLive /\ nones > 0 /\ lastOp'.kind = "next")
             => (lastOp'.value = NoValue /\ stack' = <<>> /\ yielded' = yielded)]_vars

\* C10 witness: next() has returned no value twice on an iterator that had
\* yielded three or more values.
C10_Witness ==
    /\ iterLive /\ nones >= 2
    /\ lastOp.kind = "next" /\ lastOp.value = NoValue
    /\ Len(yielded) >= 3

\* The least and the greatest value of a nonempty set, none for the empty set.
LeastOf(S) == IF S = {} THEN NoValue ELSE CHOOSE x \in S : \A y \in S : x <= y
GreatestOf(S) == IF S = {} THEN NoValue ELSE CHOOSE x \in S : \A y \in S : y <= x

\* C11: minimum() is the least stored value, maximum() the greatest, and both
\* return no value exactly when the tree is empty.
C11_MinMax ==
    /\ minimum(root) = LeastOf(Contents(root))
    /\ maximum(root) = GreatestOf(Contents(root))
    /\ (minimum(root) = NoValue) <=> ~root.some
    /\ (maximum(root) = NoValue) <=> ~root.some

\* C11 witness: after a removal the minimum lies two levels below the root and
\* the maximum is not the root.
C11_Witness ==
    /\ lastOp.kind = "remove" /\ lastOp.found
    /\ root.some /\ root.left.some /\ root.left.left.some /\ root.right.some
    /\ minimum(root) < root.left.value
    /\ maximum(root) > root.value

\* C16: after insert calls only, every node is AVL-balanced and every cached
\* height is exact; a tree of three values has height() = 2.
C16_InsertOnlyBalanced ==
    /\ \A n \in Nodes(root) :
          /\ Abs(RealHeight(n.left) - RealHeight(n.right)) <= 1
          /\ n.height = RealHeight(n)
    /\ Size(root) = 3 => height(root) = 2

\* C16 witness: the third insert put the new value at the root, which only the
\* double rotation of the LR or RL case does.
C16_Witness ==
    /\ lastOp.kind = "insert" /\ ~lastOp.found
    /\ Size(root) = 3 /\ height(root) = 2
    /\ root.value = lastOp.value

\* C19: no cached height is smaller than the real height of its subtree, and
\* height() is 0 exactly when the tree stores no value.
C19_CachedHeightUpperBound ==
    /\ \A n \in Nodes(root) : n.height >= RealHeight(n)
    /\ (height(root) = 0) <=> (Contents(root) = {})

\* C19 witness: after a removal some node's cached height is larger than the
\* real height of its subtree.
C19_Witness ==
    /\ lastOp.kind = "remove" /\ lastOp.found
    /\ \E n \in Nodes(root) : n.height > RealHeight(n)

\* C12: insert and remove never hit a fatal condition: no balance() call
\* unwraps a missing child and none rotates into a missing child.
C12_NoFatal == ~balLog.fatal /\ ~balLog.missing

\* C12 witness: a removal made a balance() call that took an unwrap and
\* rotated, and left a tree of four or more values.
C12_Witness ==
    /\ lastOp.kind = "remove" /\ lastOp.found
    /\ \E b \in balLog.inbf : b > 1 \/ b < -1
    /\ Size(root) >= 4

\* C17: at every balance() call the balance factor is within [-2, 2] on entry
\* and the balance factor of the node returned is within [-1, 1].
C17_BalanceFactorRange ==
    /\ balLog.inbf \subseteq -2..2
    /\ balLog.outbf \subseteq -1..1

\* C13: insert and remove only create nodes: for every call the tree can
\* take, every node that existed before the call keeps its value, child
\* references and cached height, so the snapshot taken before the call is the
\* same tree afterwards; the new root is the tree the call produces.
C13_SnapshotPersistence ==
    ~iterLive =>
        \A k \in {"insert", "remove"} : \A v \in Values :
            LET before == ToHeap(<<>>, root)
                after == AfterCall(root, Op(k, v, search(root, v)))
            IN  /\ \A id \in 1..Len(before.heap) : after.heap[id] = before.heap[id]
                /\ FromHeap(after.heap, before.root) = root
                /\ FromHeap(after.heap, after.root) =
                      IF k = "insert" THEN insert(root, v) ELSE remove(root, v)

\* C13 witness: a removal has produced a tree from which a further removal of
\* a stored value builds new nodes around a subtree shared with the snapshot.
C13_Witness ==
    /\ lastOp.kind = "remove" /\ lastOp.found
    /\ \E v \in Contents(root) :
          LET before == ToHeap(<<>>, root)
              after == AfterCall(root, Op("remove", v, TRUE))
          IN  /\ Len(after.heap) >= Len(before.heap) + 2
              /\ after.root > Len(before.heap)
              /\ \E id \in Reach(after.heap, after.root) : id <= Len(before.heap)

\* C14: add_key returns Ok for every key of at most KEY_BYTES bytes, also a
\* shorter one, returns the error exactly for a longer key, and on the error
\* has updated neither hasher.
C14_AddKeyResult ==
    [][(Len(hCalls') = Len(hCalls) + 1 /\ hCalls'[Len(hCalls')].kind = "add_key") =>
          LET c == hCalls'[Len(hCalls')]
          IN  /\ Len(c.arg) <= KeyBytes => c.result = "Ok"
              /\ c.result = "Err" <=> Len(c.arg) > KeyBytes
              /\ c.result = "Err" => hInner' = hInner /\ hOuter' = hOuter]_vars

\* k zero-padded to KEY_BYTES bytes
ZeroPadded(k) == [i \in 1..KeyBytes |-> IF i <= Len(k) THEN k[i] ELSE 0]

RECURSIVE UpdateData(_, _)
\* The data of the update calls calls[i..], in order
UpdateData(calls, i) ==
    IF i > Len(calls) THEN <<>>
    ELSE (IF calls[i].kind = "update" THEN calls[i].arg ELSE <<>>)
         \o UpdateData(calls, i + 1)

\* A successful add_key, then update calls only, then one finalize
KeyedRun(calls) ==
    /\ Len(calls) >= 2
    /\ calls[1].kind = "add_key" /\ calls[1].result = "Ok"
    /\ calls[Len(calls)].kind = "finalize"
    /\ \A i \in 2..(Len(calls) - 1) : calls[i].kind = "update"

RECURSIVE PopCount(_)
\* The number of 1 bits of n
PopCount(n) == IF n = 0 THEN 0 ELSE (n % 2) + PopCount(n \div 2)

\* C15: kerninghan(n) returns the number of 1 bits of n after exactly that
\* many iterations of its loop, 0 for n = 0, and the loop ends.
C15_Kerninghan ==
    /\ [](kPc # "idle" => kCount + PopCount(kN) = PopCount(kInput))
    /\ [](kPc = "done" => kCount = PopCount(kInput) /\ (kInput = 0 => kCount = 0))
    /\ <>(kPc = "done")

\* C15 witness: kerninghan(0b1011) has returned 3.
C15_Witness == kPc = "done" /\ kInput = 11 /\ kCount = 3

====
